---- MODULE Spec2Model ----
(***************************************************************************)
(* Environment-driven configuration resolution of config/settings.py.     *)
(*                                                                         *)
(* The settings module is one straight-line procedure executed when the    *)
(* module is imported.  The model follows it statement group by statement  *)
(* group; pc names the statement group that runs next.                     *)
(*                                                                         *)
(* Text.  A Python str is a sequence of one-character strings, so that     *)
(* slicing, split, strip, "in" and concatenation are computed as Python    *)
(* computes them.  The fixed wording of a printed line or of an error      *)
(* message is kept as word tokens (strings longer than one character);     *)
(* everything that comes from the environment, the separators and the      *)
(* trailing "..." are kept character by character.                         *)
(***************************************************************************)
EXTENDS Integers, Sequences, FiniteSets, TLC

VARIABLES
    envFileExists,          \* env_path.exists()
    envFile,                \* key/value pairs of the file at env_path
    foundFile,              \* what load_dotenv() finds in its default locations
    strictSchemes,          \* the installed dj_database_url rejects unknown schemes
    environ0,               \* os.environ when the process started
    environ,                \* os.environ
    stdout,                 \* lines printed so far
    pc,                     \* next statement group of the module
    error,                  \* the ImproperlyConfigured that ended the run
    run,                    \* number of the current execution of the module
    prev,                   \* outcome of the previous execution (history)
    SECRET_KEY, DEBUG, ALLOWED_HOSTS, DATABASE_URL, db_config, engine,
    DATABASES, CLOUDINARY, CORS_ALLOWED_ORIGINS, CSRF_TRUSTED_ORIGINS,
    SECURE_SSL_REDIRECT, SESSION_COOKIE_SECURE, CSRF_COOKIE_SECURE

settings == <<SECRET_KEY, DEBUG, ALLOWED_HOSTS, DATABASE_URL, db_config, engine,
              DATABASES, CLOUDINARY, CORS_ALLOWED_ORIGINS, CSRF_TRUSTED_ORIGINS,
              SECURE_SSL_REDIRECT, SESSION_COOKIE_SECURE, CSRF_COOKIE_SECURE>>

files == <<envFileExists, envFile, foundFile, strictSchemes, environ0>>

vars == <<files, environ, stdout, pc, error, run, prev, settings>>

----------------------------------------------------------------------------
(* Bounds of the model.                                                    *)

\* longest value drawn letter by letter for a comma-separated variable
MaxLen == 3

\* executions of the module in one process
MaxRuns == 2

----------------------------------------------------------------------------
(* Values.                                                                 *)

\* a module global that has not been assigned yet / one that holds v
Unset == <<>>
Some(v) == <<v>>

\* Python's None where a str is expected
PyNone == <<"None">>

\* marks a variable the environment does not define (initial choice only)
Absent == <<"absent">>

EmptyMap == [k \in {} |-> <<>>]

----------------------------------------------------------------------------
(* Python str operations.                                                  *)

Min(a, b) == IF a <= b THEN a ELSE b

\* s[:n]
Prefix(s, n) == SubSeq(s, 1, Min(n, Len(s)))

MatchesAt(s, sub, i) ==
    /\ i + Len(sub) - 1 <= Len(s)
    /\ SubSeq(s, i, i + Len(sub) - 1) = sub

\* sub in s
Contains(s, sub) == \E i \in 1..(Len(s) + 1) : MatchesAt(s, sub, i)

\* s.find(sub), 1-based; 0 when there is none
Find(s, sub) ==
    IF Contains(s, sub)
    THEN CHOOSE i \in 1..(Len(s) + 1) :
            /\ MatchesAt(s, sub, i)
            /\ \A j \in 1..(i - 1) : ~MatchesAt(s, sub, j)
    ELSE 0

\* s.split(sep) for a one-character sep
RECURSIVE Split(_, _)
Split(s, sep) ==
    LET i == Find(s, <<sep>>) IN
    IF i = 0 THEN <<s>>
    ELSE <<SubSeq(s, 1, i - 1)>> \o Split(SubSeq(s, i + 1, Len(s)), sep)

\* str.isspace() of one character
IsSpace(c) == c \in {" ", "\t", "\n", "\r"}

RECURSIVE LStrip(_)
LStrip(s) == IF s # <<>> /\ IsSpace(Head(s)) THEN LStrip(Tail(s)) ELSE s

RECURSIVE RStrip(_)
RStrip(s) ==
    IF s # <<>> /\ IsSpace(s[Len(s)]) THEN RStrip(SubSeq(s, 1, Len(s) - 1)) ELSE s

\* s.strip()
Strip(s) == RStrip(LStrip(s))

\* repr of a list of str, as an f-string renders it: ['a', 'b']
RECURSIVE ReprItems(_)
ReprItems(l) ==
    IF l = <<>> THEN <<>>
    ELSE <<"'">> \o Head(l) \o <<"'">>
         \o (IF Len(l) > 1 THEN <<",", " ">> ELSE <<>>) \o ReprItems(Tail(l))

ListRepr(l) == <<"[">> \o ReprItems(l) \o <<"]">>

\* os.environ.get(name, default)
Get(env, name, default) == IF name \in DOMAIN env THEN env[name] ELSE default

----------------------------------------------------------------------------
(* Program constants.                                                      *)

BASE_DIR == <<"/", "a", "p", "p">>
env_path == BASE_DIR \o <<"/", ".", "e", "n", "v">>

True == <<"T", "r", "u", "e">>
False == <<"F", "a", "l", "s", "e">>

DefaultHosts == << <<".", "r", "a", "i", "l", "w", "a", "y", ".", "a", "p", "p">>, <<"l", "o", "c", "a", "l", "h", "o", "s", "t">>, <<"1", "2", "7", ".", "0", ".", "0", ".", "1">>, <<"[", ":", ":", "1", "]">> >>

DefaultCorsOrigin == <<"h", "t", "t", "p", ":", "/", "/", "l", "o", "c", "a", "l", "h", "o", "s", "t", ":", "5", "1", "7", "3">>

DefaultCsrfOrigins ==
    << <<"h", "t", "t", "p", "s", ":", "/", "/", "*", ".", "r", "a", "i", "l", "w", "a", "y", ".", "a", "p", "p">>, <<"h", "t", "t", "p", ":", "/", "/", "l", "o", "c", "a", "l", "h", "o", "s", "t", ":", "5", "1", "7", "3">>,
       <<"h", "t", "t", "p", ":", "/", "/", "l", "o", "c", "a", "l", "h", "o", "s", "t", ":", "8", "0", "0", "0">>, <<"h", "t", "t", "p", ":", "/", "/", "1", "2", "7", ".", "0", ".", "0", ".", "1", ":", "8", "0", "0", "0">> >>

\* characters of the connection string that are printed / put in the error
PrintedUrlChars == 50
ErrorUrlChars == 100

ConnMaxAge == 600

Ellipsis == <<".", ".", ".">>

----------------------------------------------------------------------------
(* dj_database_url.parse, as the module calls it:                          *)
(*     parse(DATABASE_URL, conn_max_age=600, ssl_require=True)             *)
(* The connection strings drawn below are lower-case and carry no query,   *)
(* so urlsplit's case folding and query handling do not come into play.    *)

PostgresqlEngine == <<"d", "j", "a", "n", "g", "o", ".", "d", "b", ".", "b", "a", "c", "k", "e", "n", "d", "s", ".", "p", "o", "s", "t", "g", "r", "e", "s", "q", "l">>
PostgisEngine == <<"d", "j", "a", "n", "g", "o", ".", "c", "o", "n", "t", "r", "i", "b", ".", "g", "i", "s", ".", "d", "b", ".", "b", "a", "c", "k", "e", "n", "d", "s", ".", "p", "o", "s", "t", "g", "i", "s">>
MysqlEngine == <<"d", "j", "a", "n", "g", "o", ".", "d", "b", ".", "b", "a", "c", "k", "e", "n", "d", "s", ".", "m", "y", "s", "q", "l">>
SqliteEngine == <<"d", "j", "a", "n", "g", "o", ".", "d", "b", ".", "b", "a", "c", "k", "e", "n", "d", "s", ".", "s", "q", "l", "i", "t", "e", "3">>
OracleEngine == <<"d", "j", "a", "n", "g", "o", ".", "d", "b", ".", "b", "a", "c", "k", "e", "n", "d", "s", ".", "o", "r", "a", "c", "l", "e">>
RedshiftEngine == <<"d", "j", "a", "n", "g", "o", "_", "r", "e", "d", "s", "h", "i", "f", "t", "_", "b", "a", "c", "k", "e", "n", "d">>
TimescaleEngine == <<"t", "i", "m", "e", "s", "c", "a", "l", "e", ".", "d", "b", ".", "b", "a", "c", "k", "e", "n", "d", "s", ".", "p", "o", "s", "t", "g", "r", "e", "s", "q", "l">>

\* scheme -> ENGINE, the library's registry
SCHEMES ==
    { << <<"p", "o", "s", "t", "g", "r", "e", "s">>, PostgresqlEngine >>,
      << <<"p", "o", "s", "t", "g", "r", "e", "s", "q", "l">>, PostgresqlEngine >>,
      << <<"p", "g", "s", "q", "l">>, PostgresqlEngine >>,
      << <<"p", "o", "s", "t", "g", "i", "s">>, PostgisEngine >>,
      << <<"m", "y", "s", "q", "l">>, MysqlEngine >>,
      << <<"s", "q", "l", "i", "t", "e">>, SqliteEngine >>,
      << <<"o", "r", "a", "c", "l", "e">>, OracleEngine >>,
      << <<"r", "e", "d", "s", "h", "i", "f", "t">>, RedshiftEngine >>,
      << <<"t", "i", "m", "e", "s", "c", "a", "l", "e">>, TimescaleEngine >> }

KnownScheme(s) == \E p \in SCHEMES : p[1] = s
EngineOf(s) == (CHOOSE p \in SCHEMES : p[1] = s)[2]

\* s.rfind(c), 1-based; 0 when there is none
RFind(s, c) ==
    IF \E i \in 1..Len(s) : s[i] = c
    THEN CHOOSE i \in 1..Len(s) : s[i] = c /\ \A j \in (i + 1)..Len(s) : s[j] # c
    ELSE 0

IsDigits(s) == \A i \in 1..Len(s) : s[i] \in {"0", "1", "2", "3", "4", "5", "6", "7", "8", "9"}

\* urllib.parse.urlsplit: scheme, netloc, path
UrlParts(url) ==
    LET c == Find(url, <<":">>)
        scheme == IF c = 0 THEN <<>> ELSE SubSeq(url, 1, c - 1)
        rest == IF c = 0 THEN url ELSE SubSeq(url, c + 1, Len(url))
        hasNetloc == MatchesAt(rest, <<"/", "/">>, 1)
        afterSlashes == IF hasNetloc THEN SubSeq(rest, 3, Len(rest)) ELSE rest
        p == Find(afterSlashes, <<"/">>)
        netloc == IF ~hasNetloc THEN <<>>
                  ELSE IF p = 0 THEN afterSlashes
                  ELSE SubSeq(afterSlashes, 1, p - 1)
        path == IF ~hasNetloc THEN rest
                ELSE IF p = 0 THEN <<>>
                ELSE SubSeq(afterSlashes, p, Len(afterSlashes))
        at == RFind(netloc, "@")
        userinfo == IF at = 0 THEN <<>> ELSE SubSeq(netloc, 1, at - 1)
        hostport == SubSeq(netloc, at + 1, Len(netloc))
        uc == Find(userinfo, <<":">>)
        hc == Find(hostport, <<":">>)
    IN  [scheme |-> scheme,
         path |-> path,
         username |-> IF uc = 0 THEN userinfo ELSE SubSeq(userinfo, 1, uc - 1),
         password |-> IF uc = 0 THEN <<>> ELSE SubSeq(userinfo, uc + 1, Len(userinfo)),
         hostname |-> IF hc = 0 THEN hostport ELSE SubSeq(hostport, 1, hc - 1),
         port |-> IF hc = 0 THEN <<>> ELSE SubSeq(hostport, hc + 1, Len(hostport))]

DescriptorKeys ==
    {"ENGINE", "NAME", "USER", "PASSWORD", "HOST", "PORT", "CONN_MAX_AGE", "OPTIONS"}

\* the descriptor parse() builds, with the entries named by keys
Descriptor(u, keys) ==
    [k \in keys |->
        CASE k = "ENGINE" -> EngineOf(u.scheme)
          [] k = "NAME" -> IF u.path = <<>> THEN <<>> ELSE Tail(u.path)
          [] k = "USER" -> u.username
          [] k = "PASSWORD" -> u.password
          [] k = "HOST" -> u.hostname
          [] k = "PORT" -> u.port
          [] k = "CONN_MAX_AGE" -> ConnMaxAge
          [] OTHER -> [sslmode |-> "require"]]

Raised(text) == [raised |-> TRUE, text |-> text, config |-> EmptyMap]
Returned(config) == [raised |-> FALSE, text |-> <<>>, config |-> config]

(* What parse() does with a connection string.  A port that is not a      *)
(* number makes urlsplit raise.  For a scheme that is not registered the   *)
(* releases of the library differ: the older ones return a descriptor      *)
(* that has no ENGINE entry, the newer ones raise an error that names the  *)
(* scheme; strict tells which release is installed.                        *)
Parse(url, strict) ==
    LET u == UrlParts(url) IN
    IF ~IsDigits(u.port)
    THEN Raised(<<"Port could not be cast to integer value as", " ", "'">>
                \o u.port \o <<"'">>)
    ELSE IF ~KnownScheme(u.scheme)
    THEN IF strict
         THEN Raised(<<"No support for", " ", "'">> \o u.scheme \o <<"'">>)
         ELSE Returned(Descriptor(u, DescriptorKeys \ {"ENGINE"}))
    ELSE Returned(Descriptor(u, DescriptorKeys))

\* db_config.get('ENGINE', '')
EngineKind(config) == IF "ENGINE" \in DOMAIN config THEN config["ENGINE"] ELSE <<>>

AcceptsAnyEngine(e) == TRUE

\* not ('postgresql' not in engine and 'postgres' not in engine)
IsPostgres(e) == Contains(e, <<"p", "o", "s", "t", "g", "r", "e", "s", "q", "l">>) \/ Contains(e, <<"p", "o", "s", "t", "g", "r", "e", "s">>)

----------------------------------------------------------------------------
(* python-dotenv: load_dotenv(...) with its default override=False sets    *)
(* every key of the file that os.environ does not define yet and leaves    *)
(* the defined ones alone.                                                 *)

LoadDotenvOverride(env, file) ==
    [k \in DOMAIN env \cup DOMAIN file |->
        IF k \in DOMAIN file THEN file[k] ELSE env[k]]

LoadDotenv(env, file) ==
    [k \in DOMAIN env \cup DOMAIN file |->
        IF k \in DOMAIN env THEN env[k] ELSE file[k]]

----------------------------------------------------------------------------
(* The environments and files the model starts from.                       *)

Names ==
    {"DJANGO_SECRET_KEY", "DJANGO_DEBUG", "DJANGO_ALLOWED_HOSTS", "DATABASE_URL",
     "CLOUD_NAME", "API_KEY", "API_SECRET", "CORS_ALLOWED_ORIGINS",
     "RAILWAY_PUBLIC_DOMAIN"}

\* every string of at most n characters of alphabet
Strings(alphabet, n) ==
    UNION {{SubSeq(f, 1, k) : f \in [1..k -> alphabet]} : k \in 0..n}

Pad(n) == [i \in 1..n |-> "x"]

ShortPgUrl == <<"p", "o", "s", "t", "g", "r", "e", "s", ":", "/", "/", "u", ":", "p", "@", "h", ":", "5", "4", "3", "2", "/", "d">>
\* longer than the printed prefix, shorter than the prefix kept in the error
LongPgUrl == ShortPgUrl \o Pad(PrintedUrlChars)
\* longer than both
VeryLongPgUrl == ShortPgUrl \o Pad(ErrorUrlChars)
TimescaleUrl == <<"t", "i", "m", "e", "s", "c", "a", "l", "e", ":", "/", "/", "u", ":", "p", "@", "h", ":", "5", "4", "3", "2", "/", "d">>
PostgisUrl == <<"p", "o", "s", "t", "g", "i", "s", ":", "/", "/", "u", ":", "p", "@", "h", ":", "5", "4", "3", "2", "/", "d">>
MysqlUrl == <<"m", "y", "s", "q", "l", ":", "/", "/", "u", ":", "p", "@", "h", ":", "3", "3", "0", "6", "/", "d">>
LongMysqlUrl == MysqlUrl \o Pad(ErrorUrlChars)
RedisUrl == <<"r", "e", "d", "i", "s", ":", "/", "/", "h", ":", "6", "3", "7", "9", "/", "0">>
BadPortUrl == <<"p", "o", "s", "t", "g", "r", "e", "s", ":", "/", "/", "u", ":", "p", "@", "h", ":", "p", "o", "r", "t", "/", "d">>

SecretChoices == {Absent, <<>>, <<"k">>}
DebugChoices ==
    {Absent, <<>>, True, <<"t", "r", "u", "e">>, <<"T", "R", "U", "E">>, <<"1">>, <<" ", "T", "r", "u", "e">>, <<"T", "r", "u", "e", " ">>, False}
UrlChoices ==
    {Absent, <<>>, ShortPgUrl, LongPgUrl, VeryLongPgUrl, TimescaleUrl, PostgisUrl,
     MysqlUrl, LongMysqlUrl, RedisUrl, BadPortUrl}
HostChoices == {Absent} \cup Strings({"a", ",", " "}, MaxLen) \cup {<<"a", ".", "c", "o", "m", ",", " ", "b", ".", "c", "o", "m">>, <<"a", ",", "a">>}
CorsChoices == {Absent} \cup Strings({"o", ","}, MaxLen) \cup {<<"h", "t", "t", "p", ":", "/", "/", "a", ",", " ", "h", "t", "t", "p", ":", "/", "/", "b">>}
DomainChoices == {Absent, <<>>, <<"d", ".", "u", "p", ".", "r", "a", "i", "l", "w", "a", "y", ".", "a", "p", "p">>}
CloudChoices == {Absent, <<"c">>}

\* the environment that makes resolution succeed with every default
Baseline ==
    [n \in Names |->
        CASE n = "DJANGO_SECRET_KEY" -> <<"k">>
          [] n = "DATABASE_URL" -> ShortPgUrl
          [] n \in {"CLOUD_NAME", "API_KEY", "API_SECRET"} -> <<"c">>
          [] OTHER -> Absent]

\* a choice per name -> os.environ
MkEnv(choice) == [n \in {m \in Names : choice[m] # Absent} |-> choice[n]]

(* Environments: every combination of the values that decide the control   *)
(* flow, and around the baseline every value of each single variable.      *)
Combined ==
    {[Baseline EXCEPT !["DJANGO_SECRET_KEY"] = s, !["DJANGO_DEBUG"] = d,
                      !["DATABASE_URL"] = u, !["RAILWAY_PUBLIC_DOMAIN"] = p,
                      !["DJANGO_ALLOWED_HOSTS"] = h] :
        s \in SecretChoices, d \in {Absent, True}, u \in UrlChoices,
        p \in DomainChoices, h \in {Absent, <<"a", ",", " ", ",", "a">>}}

Single ==
    {[Baseline EXCEPT ![n] = v] :
        n \in {"DJANGO_DEBUG"}, v \in DebugChoices}
    \cup {[Baseline EXCEPT !["DJANGO_ALLOWED_HOSTS"] = v] : v \in HostChoices}
    \cup {[Baseline EXCEPT !["CORS_ALLOWED_ORIGINS"] = v] : v \in CorsChoices}
    \cup {[Baseline EXCEPT ![n] = v] :
            n \in {"CLOUD_NAME", "API_KEY", "API_SECRET"}, v \in CloudChoices}

Environments == {MkEnv(c) : c \in Combined \cup Single}

FileA == [DJANGO_SECRET_KEY |-> <<"f">>, DJANGO_DEBUG |-> True]
FileB == [DATABASE_URL |-> TimescaleUrl, DJANGO_ALLOWED_HOSTS |-> <<"b">>,
          RAILWAY_PUBLIC_DOMAIN |-> <<"e">>]

\* <<env_path exists, its content, what the default search finds>>
FileSystems ==
    { <<FALSE, EmptyMap, Unset>>,
      <<FALSE, EmptyMap, Some(FileA)>>,
      <<TRUE, EmptyMap, Unset>>,
      <<TRUE, FileA, Unset>>,
      <<TRUE, FileB, Some(FileA)>> }

----------------------------------------------------------------------------
(* Printed lines and error messages.                                       *)

LookingLine == <<"Looking for .env file at:", " ">> \o env_path
LoadedLine == <<".env file loaded successfully">>
NotFoundLine == <<"WARNING: .env file not found at expected location!">>
FallbackLine == <<"Trying to load .env from default locations...">>
HostsLine(hosts) == <<"ALLOWED_HOSTS:", " ">> \o ListRepr(hosts)
UrlFoundLine(url) ==
    <<"DATABASE_URL found:", " ">> \o Prefix(url, PrintedUrlChars) \o Ellipsis
CloudinaryLine == <<"WARNING: Cloudinary credentials not fully set in .env file">>

\* str() of a descriptor entry that may be missing
Shown(config, k) == IF k \in DOMAIN config THEN config[k] ELSE PyNone

DatabaseLines(config) ==
    << <<"Database configured successfully">>,
       <<"   Engine:", " ">> \o Shown(config, "ENGINE"),
       <<"   Name:", " ">> \o Shown(config, "NAME"),
       <<"   Host:", " ">> \o Shown(config, "HOST"),
       <<"   Port:", " ">> \o Shown(config, "PORT") >>

ReportLines(debug, hosts, cors, csrf) ==
    << <<"==================================================">>,
       <<"Django Settings loaded successfully!">>,
       <<"DEBUG mode:", " ">> \o (IF debug THEN True ELSE False),
       <<"Allowed Hosts:", " ">> \o ListRepr(hosts),
       <<"CORS Origins:", " ">> \o ListRepr(cors),
       <<"CSRF Trusted Origins:", " ">> \o ListRepr(csrf),
       <<"==================================================">> >>

SecretKeyMessage == <<"DJANGO_SECRET_KEY is not set in environment variables">>

DatabaseUrlMessageNoPath ==
    <<"DATABASE_URL environment variable is not set.", "\n",
      "Please add DATABASE_URL to your .env file with Railway PostgreSQL connection string.">>

DatabaseUrlMessage ==
    <<"DATABASE_URL environment variable is not set.", "\n",
      "Please add DATABASE_URL to your .env file with Railway PostgreSQL connection string.",
      "\n", "Current .env path:", " ">> \o env_path

EngineMessage(e) ==
    <<"Database ENGINE should be PostgreSQL, but got:", " ">> \o e
    \o <<"\n", "Please use a PostgreSQL database from Railway.">>

\* the message of the error raised by the except clause around the parsing
ParseFailureMessage(text, url) ==
    <<"Failed to parse DATABASE_URL:", " ">> \o text
    \o <<"\n", "DATABASE_URL value:", " ">> \o Prefix(url, ErrorUrlChars) \o Ellipsis

----------------------------------------------------------------------------
(* The state after construction: the process has its environment, the      *)
(* module has not run, none of its globals exists.                         *)

Init ==
    /\ \E fs \in FileSystems :
        /\ envFileExists = fs[1]
        /\ envFile = fs[2]
        /\ foundFile = fs[3]
    /\ strictSchemes \in BOOLEAN
    /\ environ0 \in Environments
    /\ environ = environ0
    /\ stdout = <<>>
    /\ pc = "load_env"
    /\ error = Unset
    /\ run = 1
    /\ prev = Unset
    /\ SECRET_KEY = Unset
    /\ DEBUG = Unset
    /\ ALLOWED_HOSTS = Unset
    /\ DATABASE_URL = Unset
    /\ db_config = Unset
    /\ engine = Unset
    /\ DATABASES = Unset
    /\ CLOUDINARY = Unset
    /\ CORS_ALLOWED_ORIGINS = Unset
    /\ CSRF_TRUSTED_ORIGINS = Unset
    /\ SECURE_SSL_REDIRECT = Unset
    /\ SESSION_COOKIE_SECURE = Unset
    /\ CSRF_COOKIE_SECURE = Unset

\* raise ImproperlyConfigured(msg) out of the module
Raise(step, msg) ==
    /\ error' = Some([step |-> step, msg |-> msg])
    /\ pc' = "error"

\* the statement group ends and the next one follows
Goto(next) ==
    /\ pc' = next
    /\ error' = error

----------------------------------------------------------------------------
(* Lines 13-26: locate and load the environment file.                      *)

LoadEnv ==
    /\ pc = "load_env"
    /\ IF envFileExists
       THEN /\ environ' = LoadDotenv(environ, envFile)
            /\ stdout' = stdout \o <<LookingLine, LoadedLine>>
       ELSE /\ environ' = IF foundFile = Unset THEN environ
                          ELSE LoadDotenv(environ, foundFile[1])
            /\ stdout' = stdout \o <<LookingLine, NotFoundLine, FallbackLine>>
    /\ Goto("secret_key")
    /\ UNCHANGED <<files, run, prev, settings>>

(* Lines 28-31: the secret key.                                            *)

SecretKeyMissingNoneOnly(v) == v = PyNone

\* not SECRET_KEY
SecretKeyMissing(v) == v = PyNone \/ v = <<>>

RequireSecretKey ==
    /\ pc = "secret_key"
    /\ LET v == Get(environ, "DJANGO_SECRET_KEY", PyNone) IN
        /\ SECRET_KEY' = Some(v)
        /\ IF SecretKeyMissing(v)
           THEN Raise("secret_key", SecretKeyMessage)
           ELSE Goto("debug")
    /\ UNCHANGED <<files, environ, stdout, run, prev, DEBUG, ALLOWED_HOSTS,
                   DATABASE_URL, db_config, engine, DATABASES, CLOUDINARY,
                   CORS_ALLOWED_ORIGINS, CSRF_TRUSTED_ORIGINS, SECURE_SSL_REDIRECT,
                   SESSION_COOKIE_SECURE, CSRF_COOKIE_SECURE>>

(* Line 33: the debug flag.                                                *)

DebugFlagTruthy(env) == Strip(Get(env, "DJANGO_DEBUG", False)) # <<>>

\* os.environ.get('DJANGO_DEBUG', 'False') == 'True'
DebugFlag(env) == Get(env, "DJANGO_DEBUG", False) = True

ComputeDebug ==
    /\ pc = "debug"
    /\ DEBUG' = Some(DebugFlag(environ))
    /\ Goto("allowed_hosts")
    /\ UNCHANGED <<files, environ, stdout, run, prev, SECRET_KEY, ALLOWED_HOSTS,
                   DATABASE_URL, db_config, engine, DATABASES, CLOUDINARY,
                   CORS_ALLOWED_ORIGINS, CSRF_TRUSTED_ORIGINS, SECURE_SSL_REDIRECT,
                   SESSION_COOKIE_SECURE, CSRF_COOKIE_SECURE>>

(* Lines 35-54: the allowed hosts.                                         *)

KeptHosts(old) == IF old = Unset THEN <<>> ELSE old[1]

\* ALLOWED_HOSTS: list[str] = []
EmptyHosts(old) == <<>>

RECURSIVE DropEmptyOnly(_)
DropEmptyOnly(hosts) ==
    IF hosts = <<>> THEN <<>>
    ELSE (IF Head(hosts) # <<>> THEN <<Strip(Head(hosts))>> ELSE <<>>)
         \o DropEmptyOnly(Tail(hosts))

\* [host.strip() for host in ALLOWED_HOSTS if host.strip()]
RECURSIVE StripAndDropEmpty(_)
StripAndDropEmpty(hosts) ==
    IF hosts = <<>> THEN <<>>
    ELSE (IF Strip(Head(hosts)) # <<>> THEN <<Strip(Head(hosts))>> ELSE <<>>)
         \o StripAndDropEmpty(Tail(hosts))

AllowedHosts(env, old) ==
    LET env_hosts == Get(env, "DJANGO_ALLOWED_HOSTS", <<>>)
        fromEnv == IF env_hosts # <<>>
                   THEN EmptyHosts(old) \o Split(env_hosts, ",")
                   ELSE EmptyHosts(old)
    IN  StripAndDropEmpty(fromEnv \o DefaultHosts)

ComputeAllowedHosts ==
    /\ pc = "allowed_hosts"
    /\ LET hosts == AllowedHosts(environ, ALLOWED_HOSTS) IN
        /\ ALLOWED_HOSTS' = Some(hosts)
        /\ stdout' = Append(stdout, HostsLine(hosts))
    /\ Goto("database_url")
    /\ UNCHANGED <<files, environ, run, prev, SECRET_KEY, DEBUG,
                   DATABASE_URL, db_config, engine, DATABASES, CLOUDINARY,
                   CORS_ALLOWED_ORIGINS, CSRF_TRUSTED_ORIGINS, SECURE_SSL_REDIRECT,
                   SESSION_COOKIE_SECURE, CSRF_COOKIE_SECURE>>

(* Lines 56-66: the connection string.                                     *)

\* not DATABASE_URL
DatabaseUrlMissing(v) == v = PyNone \/ v = <<>>

RequireDatabaseUrl ==
    /\ pc = "database_url"
    /\ LET v == Get(environ, "DATABASE_URL", PyNone) IN
        /\ DATABASE_URL' = Some(v)
        /\ IF DatabaseUrlMissing(v)
           THEN /\ Raise("database_url", DatabaseUrlMessage)
                /\ stdout' = stdout
           ELSE /\ stdout' = Append(stdout, UrlFoundLine(v))
                /\ Goto("database_parse")
    /\ UNCHANGED <<files, environ, run, prev, SECRET_KEY, DEBUG, ALLOWED_HOSTS,
                   db_config, engine, DATABASES, CLOUDINARY,
                   CORS_ALLOWED_ORIGINS, CSRF_TRUSTED_ORIGINS, SECURE_SSL_REDIRECT,
                   SESSION_COOKIE_SECURE, CSRF_COOKIE_SECURE>>

(* Lines 68-94: parse the connection string and check the engine.  Every   *)
(* exception raised inside the try block, the engine error included, is    *)
(* caught and raised again as the parse failure.                           *)

ParseDatabase ==
    /\ pc = "database_parse"
    /\ \E out \in {Parse(DATABASE_URL[1], strictSchemes)} :
        IF out.raised
        THEN /\ Raise("database_parse", ParseFailureMessage(out.text, DATABASE_URL[1]))
             /\ UNCHANGED <<db_config, engine, DATABASES, stdout>>
        ELSE /\ db_config' = Some(out.config)
             /\ engine' = Some(EngineKind(out.config))
             /\ IF ~IsPostgres(EngineKind(out.config))
                THEN /\ Raise("database_parse",
                              ParseFailureMessage(EngineMessage(EngineKind(out.config)),
                                                  DATABASE_URL[1]))
                     /\ UNCHANGED <<DATABASES, stdout>>
                ELSE /\ DATABASES' = Some([default |-> out.config])
                     /\ stdout' = stdout \o DatabaseLines(out.config)
                     /\ Goto("static")
    /\ UNCHANGED <<files, environ, run, prev, SECRET_KEY, DEBUG, ALLOWED_HOSTS,
                   DATABASE_URL, CLOUDINARY,
                   CORS_ALLOWED_ORIGINS, CSRF_TRUSTED_ORIGINS, SECURE_SSL_REDIRECT,
                   SESSION_COOKIE_SECURE, CSRF_COOKIE_SECURE>>

(* Lines 96-230: the fixed settings and the media storage credentials.     *)
(* Only the credentials depend on the environment; incomplete credentials  *)
(* are a warning, never an error.                                          *)

\* not all([CLOUD_NAME, API_KEY, API_SECRET])
CredentialsIncomplete(c) == \E i \in 1..3 : c[i] = PyNone \/ c[i] = <<>>

StaticSettings ==
    /\ pc = "static"
    /\ LET c == <<Get(environ, "CLOUD_NAME", PyNone), Get(environ, "API_KEY", PyNone),
                  Get(environ, "API_SECRET", PyNone)>> IN
        /\ CLOUDINARY' = Some(c)
        /\ stdout' = IF CredentialsIncomplete(c) THEN Append(stdout, CloudinaryLine)
                     ELSE stdout
    /\ Goto("cors")
    /\ UNCHANGED <<files, environ, run, prev, SECRET_KEY, DEBUG, ALLOWED_HOSTS,
                   DATABASE_URL, db_config, engine, DATABASES,
                   CORS_ALLOWED_ORIGINS, CSRF_TRUSTED_ORIGINS, SECURE_SSL_REDIRECT,
                   SESSION_COOKIE_SECURE, CSRF_COOKIE_SECURE>>

(* Lines 232-234: the CORS origins.                                        *)

CorsOriginsWithDefault(env) ==
    <<DefaultCorsOrigin>>
    \o StripAndDropEmpty(Split(Get(env, "CORS_ALLOWED_ORIGINS", <<>>), ","))

\* os.environ.get('CORS_ALLOWED_ORIGINS', 'http://localhost:5173').split(',')
CorsOrigins(env) == Split(Get(env, "CORS_ALLOWED_ORIGINS", DefaultCorsOrigin), ",")

ComputeCors ==
    /\ pc = "cors"
    /\ CORS_ALLOWED_ORIGINS' = Some(CorsOrigins(environ))
    /\ Goto("csrf")
    /\ UNCHANGED <<files, environ, stdout, run, prev, SECRET_KEY, DEBUG, ALLOWED_HOSTS,
                   DATABASE_URL, db_config, engine, DATABASES, CLOUDINARY,
                   CSRF_TRUSTED_ORIGINS, SECURE_SSL_REDIRECT,
                   SESSION_COOKIE_SECURE, CSRF_COOKIE_SECURE>>

(* Lines 236-245: the CSRF trusted origins.                                *)

\* the public-domain origin, when the variable is not empty, then the defaults
CsrfOrigins(env) ==
    LET domain == Get(env, "RAILWAY_PUBLIC_DOMAIN", PyNone)
        fromEnv == IF domain # PyNone /\ domain # <<>>
                   THEN << <<"h", "t", "t", "p", "s", ":", "/", "/">> \o domain >>
                   ELSE <<>>
    IN  fromEnv \o DefaultCsrfOrigins

ComputeCsrf ==
    /\ pc = "csrf"
    /\ CSRF_TRUSTED_ORIGINS' = Some(CsrfOrigins(environ))
    /\ Goto("secure")
    /\ UNCHANGED <<files, environ, stdout, run, prev, SECRET_KEY, DEBUG, ALLOWED_HOSTS,
                   DATABASE_URL, db_config, engine, DATABASES, CLOUDINARY,
                   CORS_ALLOWED_ORIGINS, SECURE_SSL_REDIRECT,
                   SESSION_COOKIE_SECURE, CSRF_COOKIE_SECURE>>

(* Lines 247-251: the transport security flags.                            *)

AlwaysSecure(debug) == TRUE

\* not DEBUG
SecureFlag(debug) == ~debug

ComputeSecure ==
    /\ pc = "secure"
    /\ SECURE_SSL_REDIRECT' = Some(SecureFlag(DEBUG[1]))
    /\ SESSION_COOKIE_SECURE' = Some(SecureFlag(DEBUG[1]))
    /\ CSRF_COOKIE_SECURE' = Some(SecureFlag(DEBUG[1]))
    /\ Goto("report")
    /\ UNCHANGED <<files, environ, stdout, run, prev, SECRET_KEY, DEBUG, ALLOWED_HOSTS,
                   DATABASE_URL, db_config, engine, DATABASES, CLOUDINARY,
                   CORS_ALLOWED_ORIGINS, CSRF_TRUSTED_ORIGINS>>

(* Lines 253-259: the closing report.                                      *)

Report ==
    /\ pc = "report"
    /\ stdout' = stdout \o ReportLines(DEBUG[1], ALLOWED_HOSTS[1],
                                       CORS_ALLOWED_ORIGINS[1], CSRF_TRUSTED_ORIGINS[1])
    /\ Goto("done")
    /\ UNCHANGED <<files, environ, run, prev, settings>>

(* The module is executed again in the same process (a reload): the        *)
(* environment is as the previous execution left it, the module's globals  *)
(* keep their values until the statements assign them again.               *)

Outcome ==
    [error |-> error,
     DEBUG |-> DEBUG,
     ALLOWED_HOSTS |-> ALLOWED_HOSTS,
     DATABASES |-> DATABASES,
     CORS_ALLOWED_ORIGINS |-> CORS_ALLOWED_ORIGINS,
     CSRF_TRUSTED_ORIGINS |-> CSRF_TRUSTED_ORIGINS,
     SECURE_SSL_REDIRECT |-> SECURE_SSL_REDIRECT,
     SESSION_COOKIE_SECURE |-> SESSION_COOKIE_SECURE,
     CSRF_COOKIE_SECURE |-> CSRF_COOKIE_SECURE]

Finished == pc \in {"done", "error"}

Reload ==
    /\ Finished
    /\ run < MaxRuns
    /\ run' = run + 1
    /\ prev' = Some(Outcome)
    /\ pc' = "load_env"
    /\ error' = Unset
    /\ UNCHANGED <<files, environ, stdout, settings>>

Next ==
    \/ LoadEnv
    \/ RequireSecretKey
    \/ ComputeDebug
    \/ ComputeAllowedHosts
    \/ RequireDatabaseUrl
    \/ ParseDatabase
    \/ StaticSettings
    \/ ComputeCors
    \/ ComputeCsrf
    \/ ComputeSecure
    \/ Report
    \/ Reload

Spec == Init /\ [][Next]_vars

----------------------------------------------------------------------------
(* Properties.                                                             *)

IsSet(name) == name \in DOMAIN environ
AbsentOrEmpty(name) == ~IsSet(name) \/ environ[name] = <<>>

\* the statement groups that read, print and parse DATABASE_URL, and
\* everything that follows them
DatabaseAndLater ==
    {"database_url", "database_parse", "static", "cors", "csrf", "secure",
     "report", "done"}

AfterDatabaseUrl == DatabaseAndLater \ {"database_url"}
AfterParse == AfterDatabaseUrl \ {"database_parse"}

ErrorAt(step) == pc = "error" /\ error # Unset /\ error[1].step = step

Printed(line) == \E i \in 1..Len(stdout) : stdout[i] = line
PrintedWith(word) == \E i \in 1..Len(stdout) : Contains(stdout[i], <<word>>)

(* C1.  Once the environment file has been dealt with, an environment      *)
(* whose DJANGO_SECRET_KEY is absent or empty lets the module go no        *)
(* further than the secret-key step: the run ends there with the           *)
(* secret-key error, and DATABASE_URL is never read, printed or parsed,    *)
(* whatever its value.                                                     *)
C1_SecretKeyRequired ==
    (pc # "load_env" /\ AbsentOrEmpty("DJANGO_SECRET_KEY")) =>
        /\ pc \in {"secret_key", "error"}
        /\ pc = "error" => error = Some([step |-> "secret_key", msg |-> SecretKeyMessage])
        /\ DATABASE_URL = Unset
        /\ db_config = Unset
        /\ DATABASES = Unset
        /\ ~PrintedWith("DATABASE_URL found:")

C1_Witness ==
    /\ ErrorAt("secret_key")
    /\ IsSet("DJANGO_SECRET_KEY")
    /\ environ["DJANGO_SECRET_KEY"] = <<>>
    /\ IsSet("DATABASE_URL")
    /\ environ["DATABASE_URL"] = BadPortUrl

(* C2.  With a secret key, an absent or empty DATABASE_URL ends the run    *)
(* at the connection-string step with an error whose message contains      *)
(* env_path; the value read stays None or empty (no default), and neither  *)
(* DATABASES nor any later setting is defined.                             *)
C2_DatabaseUrlRequired ==
    (/\ ~AbsentOrEmpty("DJANGO_SECRET_KEY")
     /\ AbsentOrEmpty("DATABASE_URL")
     /\ pc \notin {"load_env", "secret_key", "debug", "allowed_hosts", "database_url"}) =>
        /\ ErrorAt("database_url")
        /\ Contains(error[1].msg, env_path)
        /\ DATABASE_URL \in {Some(PyNone), Some(<<>>)}
        /\ db_config = Unset
        /\ DATABASES = Unset
        /\ CLOUDINARY = Unset
        /\ CORS_ALLOWED_ORIGINS = Unset
        /\ CSRF_TRUSTED_ORIGINS = Unset
        /\ SECURE_SSL_REDIRECT = Unset
        /\ SESSION_COOKIE_SECURE = Unset
        /\ CSRF_COOKIE_SECURE = Unset
        /\ ~PrintedWith("DATABASE_URL found:")

C2_Witness ==
    /\ ErrorAt("database_url")
    /\ ~IsSet("DATABASE_URL")
    /\ DATABASE_URL = Some(PyNone)
    /\ ALLOWED_HOSTS # Unset

\* parse() returned a descriptor in this execution of the module
ParseReturned ==
    /\ db_config # Unset
    /\ pc \in AfterParse \/ ErrorAt("database_parse")

\* the engines of the relational databases the library knows
RelationalEngines ==
    {PostgresqlEngine, PostgisEngine, MysqlEngine, SqliteEngine, OracleEngine,
     RedshiftEngine, TimescaleEngine}

(* C3 as stated.  After the parse, an engine outside the relational        *)
(* family ends the run with an error naming it, and an engine inside the   *)
(* relational family passes the validation and becomes                     *)
(* DATABASES['default'].                                                   *)
C3_RelationalFamily ==
    ParseReturned =>
        LET e == EngineKind(db_config[1]) IN
        IF e \in RelationalEngines
        THEN pc # "error" /\ DATABASES = Some([default |-> db_config[1]])
        ELSE ErrorAt("database_parse") /\ Contains(error[1].msg, e)

(* C3 as amended.  After the parse, an engine whose name does not contain  *)
(* "postgres" ends the run with an error whose message names the engine    *)
(* and DATABASES stays undefined; an engine whose name contains            *)
(* "postgres" passes the validation and DATABASES['default'] is the        *)
(* parsed descriptor.                                                      *)
C3_PostgresFamily ==
    ParseReturned =>
        LET e == EngineKind(db_config[1]) IN
        IF Contains(e, <<"p", "o", "s", "t", "g", "r", "e", "s">>)
        THEN pc # "error" /\ DATABASES = Some([default |-> db_config[1]])
        ELSE /\ ErrorAt("database_parse")
             /\ Contains(error[1].msg, <<" ">> \o e \o <<"\n">>)
             /\ DATABASES = Unset

C3_Witness ==
    /\ ErrorAt("database_parse")
    /\ engine = Some(MysqlEngine)
    /\ DATABASES = Unset
    /\ Contains(error[1].msg, MysqlEngine)

(* C4.  No printed line and no error message contains the complete         *)
(* connection string.                                                      *)
C4_UrlNeverShownInFull ==
    (DATABASE_URL # Unset /\ ~DatabaseUrlMissing(DATABASE_URL[1])) =>
        /\ \A i \in 1..Len(stdout) : ~Contains(stdout[i], DATABASE_URL[1])
        /\ error # Unset => ~Contains(error[1].msg, DATABASE_URL[1])

(* C5.  Once computed, DEBUG is true exactly when DJANGO_DEBUG is set to   *)
(* the four characters T, r, u, e.                                         *)
C5_DebugExactLiteral ==
    (pc \notin {"load_env", "secret_key", "debug"} /\ ~ErrorAt("secret_key")) =>
        /\ DEBUG \in {Some(TRUE), Some(FALSE)}
        /\ DEBUG = Some(TRUE) <=>
              (IsSet("DJANGO_DEBUG") /\ environ["DJANGO_DEBUG"] = <<"T", "r", "u", "e">>)

C5_Witness ==
    /\ pc = "done"
    /\ DEBUG = Some(FALSE)
    /\ IsSet("DJANGO_DEBUG")
    /\ environ["DJANGO_DEBUG"] = <<"t", "r", "u", "e">>

(* C6.  In a resolved configuration the three transport-security flags     *)
(* all equal the negation of DEBUG.                                        *)
C6_SecureFlagsNegateDebug ==
    pc \in {"report", "done"} =>
        /\ SECURE_SSL_REDIRECT = Some(~DEBUG[1])
        /\ SESSION_COOKIE_SECURE = Some(~DEBUG[1])
        /\ CSRF_COOKIE_SECURE = Some(~DEBUG[1])

C6_Witness ==
    /\ pc = "done"
    /\ DEBUG = Some(TRUE)
    /\ SECURE_SSL_REDIRECT = Some(FALSE)
    /\ SESSION_COOKIE_SECURE = Some(FALSE)
    /\ CSRF_COOKIE_SECURE = Some(FALSE)

\* the positions that bound the comma-separated items of s
ItemBounds(s) == {0, Len(s) + 1} \cup {i \in 1..Len(s) : s[i] = ","}

\* the k-th position of ItemBounds(s), in increasing order
NthBound(s, k) ==
    CHOOSE b \in ItemBounds(s) : Cardinality({c \in ItemBounds(s) : c < b}) = k - 1

\* the comma-separated items of s, by position
Items(s) ==
    [k \in 1..(Cardinality(ItemBounds(s)) - 1) |->
        SubSeq(s, NthBound(s, k) + 1, NthBound(s, k + 1) - 1)]

\* t without its leading and trailing whitespace, by position
Trimmed(t) ==
    LET solid == {i \in 1..Len(t) : ~IsSpace(t[i])} IN
    IF solid = {} THEN <<>>
    ELSE SubSeq(t, CHOOSE i \in solid : \A j \in solid : i <= j,
                   CHOOSE i \in solid : \A j \in solid : j <= i)

IsBlank(t) == \A i \in 1..Len(t) : IsSpace(t[i])

\* the trimmed non-blank items of s, in their order
TrimmedItems(s) ==
    LET items == Items(s)
        solid == {k \in DOMAIN items : ~IsBlank(items[k])}
    IN  [j \in 1..Cardinality(solid) |->
            Trimmed(items[CHOOSE k \in solid :
                            Cardinality({m \in solid : m < k}) = j - 1])]

(* C7.  Once computed, ALLOWED_HOSTS is the trimmed non-blank items of     *)
(* DJANGO_ALLOWED_HOSTS in their order (none when the variable is absent   *)
(* or empty), duplicates kept, followed by the four fixed defaults; no     *)
(* entry is empty or blank.                                                *)
C7_AllowedHosts ==
    (pc \in DatabaseAndLater \/ ErrorAt("database_url") \/ ErrorAt("database_parse")) =>
        LET value == Get(environ, "DJANGO_ALLOWED_HOSTS", <<>>)
            hosts == ALLOWED_HOSTS[1]
            n == Len(hosts) - Len(DefaultHosts)
        IN  /\ n = Len(TrimmedItems(value))
            /\ \A j \in 1..n : hosts[j] = TrimmedItems(value)[j]
            /\ SubSeq(hosts, n + 1, Len(hosts)) = DefaultHosts
            /\ \A i \in 1..Len(hosts) : ~IsBlank(hosts[i])

C7_Witness ==
    /\ pc = "done"
    /\ IsSet("DJANGO_ALLOWED_HOSTS")
    /\ environ["DJANGO_ALLOWED_HOSTS"] = <<"a", ",", " ", ",", "a">>
    /\ ALLOWED_HOSTS = Some(<< <<"a">>, <<"a">> >> \o DefaultHosts)

\* ",".join(l)
RECURSIVE Join(_)
Join(l) ==
    IF l = <<>> THEN <<>>
    ELSE IF Len(l) = 1 THEN Head(l)
    ELSE Head(l) \o <<",">> \o Join(Tail(l))

Has(l, x) == \E i \in 1..Len(l) : l[i] = x

CsrfResolved == CSRF_TRUSTED_ORIGINS # Unset /\ pc \in {"secure", "report", "done"}

\* the CSRF half of C8, which holds as stated
CsrfAsStated ==
    LET csrf == CSRF_TRUSTED_ORIGINS[1]
        domain == Get(environ, "RAILWAY_PUBLIC_DOMAIN", <<>>)
    IN  /\ \A i \in 1..Len(DefaultCsrfOrigins) : Has(csrf, DefaultCsrfOrigins[i])
        /\ domain # <<>> => Has(csrf, <<"h", "t", "t", "p", "s", ":", "/", "/">> \o domain)
        /\ domain = <<>> => Len(csrf) = Len(DefaultCsrfOrigins)
        /\ Len(csrf) = Len(DefaultCsrfOrigins) + (IF domain # <<>> THEN 1 ELSE 0)
        /\ ~Has(csrf, <<>>)

(* C8 as stated.  Each list holds its fixed defaults and every entry the   *)
(* environment supplies, and neither holds an empty string.                *)
C8_DefaultsPlusEnvironment ==
    CsrfResolved =>
        LET cors == CORS_ALLOWED_ORIGINS[1]
            supplied == Items(Get(environ, "CORS_ALLOWED_ORIGINS", <<>>))
        IN  /\ Has(cors, DefaultCorsOrigin)
            /\ \A k \in DOMAIN supplied : supplied[k] # <<>> => Has(cors, supplied[k])
            /\ ~Has(cors, <<>>)
            /\ CsrfAsStated

(* C8 as amended.  The CSRF list is as stated.  The CORS list is the       *)
(* single default origin only when CORS_ALLOWED_ORIGINS is absent; when    *)
(* the variable is set the list is exactly its comma-separated items,      *)
(* untrimmed and with the empty ones kept (so joining the list with        *)
(* commas gives the variable back), without the default.                   *)
C8_CorsSplitCsrfDefaults ==
    CsrfResolved =>
        LET cors == CORS_ALLOWED_ORIGINS[1] IN
        /\ IF IsSet("CORS_ALLOWED_ORIGINS")
           THEN /\ Join(cors) = environ["CORS_ALLOWED_ORIGINS"]
                /\ \A i \in 1..Len(cors) : ~Contains(cors[i], <<",">>)
                /\ Len(cors) >= 1
           ELSE cors = <<DefaultCorsOrigin>>
        /\ CsrfAsStated

C8_Witness ==
    /\ pc = "done"
    /\ IsSet("CORS_ALLOWED_ORIGINS")
    /\ environ["CORS_ALLOWED_ORIGINS"] = <<"o", ",", ",">>
    /\ CORS_ALLOWED_ORIGINS = Some(<< <<"o">>, <<>>, <<>> >>)
    /\ ~Has(CORS_ALLOWED_ORIGINS[1], DefaultCorsOrigin)

LoadDone == run > 1 \/ pc # "load_env"

\* no variable that was set when the process started has changed
NothingOverwritten ==
    \A k \in DOMAIN environ0 : k \in DOMAIN environ /\ environ[k] = environ0[k]

(* C9 as stated.  Without a file at env_path the load step warns and       *)
(* leaves the environment as it was; with one, no variable that was        *)
(* already set changes.                                                    *)
C9_NoFileNoChange ==
    LoadDone =>
        /\ ~envFileExists => Printed(NotFoundLine) /\ environ = environ0
        /\ NothingOverwritten

(* C9 as amended.  Without a file at env_path the load step warns and      *)
(* then loads the file load_dotenv() finds in its default locations, if    *)
(* any: the environment is unchanged only when that search finds none,     *)
(* otherwise the variables of the found file that were not set are         *)
(* added.  With or without a file, no variable that was already set        *)
(* changes, and the only variables added are those of the loaded file.     *)
C9_LoadKeepsSetVariables ==
    /\ NothingOverwritten
    /\ LoadDone =>
        LET loaded == IF envFileExists THEN envFile
                      ELSE IF foundFile # Unset THEN foundFile[1]
                      ELSE EmptyMap
        IN  /\ ~envFileExists => Printed(NotFoundLine)
            /\ envFileExists => Printed(LoadedLine) /\ ~Printed(NotFoundLine)
            /\ DOMAIN environ = DOMAIN environ0 \cup DOMAIN loaded
            /\ \A k \in DOMAIN loaded \ DOMAIN environ0 : environ[k] = loaded[k]
            /\ (~envFileExists /\ foundFile = Unset) => environ = environ0

C9_Witness ==
    /\ pc = "secret_key"
    /\ envFileExists
    /\ "DJANGO_SECRET_KEY" \in DOMAIN envFile
    /\ envFile["DJANGO_SECRET_KEY"] = <<"f">>
    /\ "DJANGO_SECRET_KEY" \in DOMAIN environ0
    /\ environ0["DJANGO_SECRET_KEY"] = <<"k">>
    /\ environ["DJANGO_SECRET_KEY"] = <<"k">>
    /\ ~("DJANGO_DEBUG" \in DOMAIN environ0)
    /\ environ["DJANGO_DEBUG"] = True

(* C10.  A second execution of the module in the same process, on the      *)
(* environment the first one left, ends as the first one did: the same     *)
(* error, or the same debug flag, allowed hosts, connection descriptor,    *)
(* CORS and CSRF origins and transport-security flags.                     *)
C10_Idempotent ==
    (Finished /\ prev # Unset) => Outcome = prev[1]

C10_Witness ==
    /\ pc = "done"
    /\ run = 2
    /\ prev # Unset
    /\ prev[1].ALLOWED_HOSTS = ALLOWED_HOSTS
    /\ Len(ALLOWED_HOSTS[1]) > Len(DefaultHosts)
    /\ envFileExists
    /\ environ # environ0

====
